---------------------------- MODULE Spec2Model ----------------------------
(***************************************************************************)
(* A model of the custom-system-builder number field                       *)
(* (module/sheets/components/NumberField.js) and of the system's entry     *)
(* file (init hook, Combat.rollInitiative).                                *)
(*                                                                         *)
(* JavaScript values are sequences of strings.  A JavaScript string is the *)
(* sequence of its characters (one-character strings); the other values    *)
(* are sequences whose first element is a tag of several letters, so that  *)
(* no string is equal to any of them.                                      *)
(***************************************************************************)
EXTENDS Integers, Sequences, FiniteSets, TLC

VARIABLES
    field,      \* the NumberField instance under consideration (its fields)
    props,      \* actor.data.data.props, the actor's property bag
    inputVal,   \* inputElement.val(): the displayed text input
    hiddenVal,  \* hiddenInputElement.val(): the stored value of the field
    last,       \* what the last handler call did (observation of one call)
    json,       \* the descriptor last produced by toJSON
    copy,       \* the instance last produced by fromJSON
    hookPc,     \* position of the init hook in its list of steps
    registry,   \* componentFactory's map from type tag to component class
    regLog,     \* the addComponentType calls made so far, in order
    settings,   \* the settings registered with game.settings.register
    installed,  \* whether setInitiativeFormula has patched Combat.prototype
    combat      \* one call of Combat.prototype.rollInitiative

vars == <<field, props, inputVal, hiddenVal, last, json, copy,
          hookPc, registry, regLog, settings, installed, combat>>

fieldVars  == <<field, props, inputVal, hiddenVal, last>>
jsonVars   == <<json, copy>>
hookVars   == <<hookPc, registry, regLog, settings, installed>>

(***************************************************************************)
(* JavaScript values                                                       *)
(***************************************************************************)
Null      == <<"null">>
Undefined == <<"undefined">>
True      == <<"true">>
False     == <<"false">>
Zero      == <<"number", "0">>     \* the number 0 (default role and permission)
One       == <<"number", "1">>     \* the number 1

\* ToBoolean: what `if (v)` and `!v` test.
Truthy(v) == v \notin {Null, Undefined, False, Zero, <<>>}

\* A parameter default of a destructured argument (`name = dflt`) applies to
\* undefined only, not to null.
Default(v, dflt) == IF v = Undefined THEN dflt ELSE v

(***************************************************************************)
(* JavaScript numbers.  A finite number is m / 10^e, kept normalised (no   *)
(* trailing zero in the fraction); the three other numbers are NaN and the *)
(* two infinities.                                                         *)
(***************************************************************************)
NaN    == [k |-> "nan", m |-> 0, e |-> 0]
PosInf == [k |-> "inf", m |-> 1, e |-> 0]
NegInf == [k |-> "inf", m |-> -1, e |-> 0]

RECURSIVE Pow10(_)
Pow10(n) == IF n = 0 THEN 1 ELSE 10 * Pow10(n - 1)

RECURSIVE Norm(_, _)
Norm(m, e) ==
    IF e > 0 /\ m % 10 = 0 THEN Norm(m \div 10, e - 1)
    ELSE [k |-> "num", m |-> m, e |-> e]

Int2Num(n) == Norm(n, 0)

IsNaN(x) == x.k = "nan"

\* Number.isInteger
IsInteger(x) == x.k = "num" /\ x.e = 0

\* x + y
Add(x, y) ==
    IF IsNaN(x) \/ IsNaN(y) THEN NaN
    ELSE IF x.k = "inf" /\ y.k = "inf" THEN (IF x.m = y.m THEN x ELSE NaN)
    ELSE IF x.k = "inf" THEN x
    ELSE IF y.k = "inf" THEN y
    ELSE LET e == IF x.e > y.e THEN x.e ELSE y.e
         IN  Norm(x.m * Pow10(e - x.e) + y.m * Pow10(e - y.e), e)

\* x < y (false as soon as one side is NaN)
Lt(x, y) ==
    IF IsNaN(x) \/ IsNaN(y) THEN FALSE
    ELSE IF x.k = "inf" THEN x.m < 0 /\ y # NegInf
    ELSE IF y.k = "inf" THEN y.m > 0
    ELSE LET e == IF x.e > y.e THEN x.e ELSE y.e
         IN  x.m * Pow10(e - x.e) < y.m * Pow10(e - y.e)

Gt(x, y) == Lt(y, x)
Le(x, y) == ~IsNaN(x) /\ ~IsNaN(y) /\ ~Lt(y, x)

\* Math.max / Math.min of two numbers
MathMax(x, y) == IF IsNaN(x) \/ IsNaN(y) THEN NaN ELSE IF Lt(x, y) THEN y ELSE x
MathMin(x, y) == IF IsNaN(x) \/ IsNaN(y) THEN NaN ELSE IF Lt(y, x) THEN y ELSE x

(***************************************************************************)
(* Number(string) and String(number)                                       *)
(***************************************************************************)
Digits == {"0", "1", "2", "3", "4", "5", "6", "7", "8", "9"}

DigitVal(c) ==
    CASE c = "0" -> 0 [] c = "1" -> 1 [] c = "2" -> 2 [] c = "3" -> 3
      [] c = "4" -> 4 [] c = "5" -> 5 [] c = "6" -> 6 [] c = "7" -> 7
      [] c = "8" -> 8 [] c = "9" -> 9

DigitChar(d) ==
    CASE d = 0 -> "0" [] d = 1 -> "1" [] d = 2 -> "2" [] d = 3 -> "3"
      [] d = 4 -> "4" [] d = 5 -> "5" [] d = 6 -> "6" [] d = 7 -> "7"
      [] d = 8 -> "8" [] d = 9 -> "9"

IsDigits(s) == \A i \in 1..Len(s) : s[i] \in Digits

RECURSIVE DigitsVal(_)
DigitsVal(s) ==
    IF s = <<>> THEN 0
    ELSE 10 * DigitsVal(SubSeq(s, 1, Len(s) - 1)) + DigitVal(s[Len(s)])

InfinityLit == <<"I", "n", "f", "i", "n", "i", "t", "y">>
NaNLit      == <<"N", "a", "N">>

\* An unsigned decimal literal: digits, digits '.' digits?, or '.' digits.
UnsignedToNumber(s) ==
    LET dots == {i \in 1..Len(s) : s[i] = "."}
    IN  IF s = InfinityLit THEN PosInf
        ELSE IF dots = {} THEN
            (IF s # <<>> /\ IsDigits(s) THEN Int2Num(DigitsVal(s)) ELSE NaN)
        ELSE IF Cardinality(dots) = 1 THEN
            LET d  == CHOOSE i \in dots : TRUE
                ip == SubSeq(s, 1, d - 1)
                fp == SubSeq(s, d + 1, Len(s))
            IN  IF IsDigits(ip) /\ IsDigits(fp) /\ Len(ip) + Len(fp) > 0
                THEN Norm(DigitsVal(ip) * Pow10(Len(fp)) + DigitsVal(fp), Len(fp))
                ELSE NaN
        ELSE NaN

Negate(x) == IF IsNaN(x) THEN NaN ELSE [x EXCEPT !.m = -x.m]

\* Number(s) for a string s: the empty string is 0, a decimal literal with an
\* optional sign is its value, anything else is NaN.  (White space, exponents
\* and 0x literals are outside the alphabet of the model.)
StringToNumber(s) ==
    IF s = <<>> THEN Int2Num(0)
    ELSE IF s[1] = "-" THEN Negate(UnsignedToNumber(Tail(s)))
    ELSE IF s[1] = "+" THEN UnsignedToNumber(Tail(s))
    ELSE UnsignedToNumber(s)

RECURSIVE NatToString(_)
NatToString(n) ==
    IF n < 10 THEN <<DigitChar(n)>>
    ELSE Append(NatToString(n \div 10), DigitChar(n % 10))

RECURSIVE FracToString(_, _)
FracToString(f, e) ==
    IF e = 0 THEN <<>>
    ELSE Append(FracToString(f \div 10, e - 1), DigitChar(f % 10))

\* String(x), which is also what jQuery's val(x) stores for a number x.
NumberToString(x) ==
    IF IsNaN(x) THEN NaNLit
    ELSE IF x.k = "inf" THEN (IF x.m < 0 THEN <<"-">> ELSE <<>>) \o InfinityLit
    ELSE LET a  == IF x.m < 0 THEN -x.m ELSE x.m
             ip == a \div Pow10(x.e)
             fp == a % Pow10(x.e)
         IN  (IF x.m < 0 THEN <<"-">> ELSE <<>>)
             \o NatToString(ip)
             \o (IF x.e > 0 THEN <<".">> \o FracToString(fp, x.e) ELSE <<>>)

\* String.prototype.startsWith for a one-character prefix
StartsWith(s, c) == s # <<>> /\ s[1] = c


(***************************************************************************)
(* Records as JavaScript objects                                           *)
(***************************************************************************)
\* obj.k, undefined when obj has no key k
Get(obj, k) == IF k \in DOMAIN obj THEN obj[k] ELSE Undefined

\* { ...a, ...b }
Merge(a, b) ==
    [k \in DOMAIN a \cup DOMAIN b |-> IF k \in DOMAIN b THEN b[k] ELSE a[k]]

(***************************************************************************)
(* The formula engine (ComputablePhrase), as far as the number field uses  *)
(* it: text outside ${ }$ passes through unchanged, an unterminated marker *)
(* is literal text, and an expression that names a property of the bag is  *)
(* replaced by the property's value, by the default value when the bag has *)
(* no such property.                                                       *)
(***************************************************************************)
OpenAt(s, i)  == i + 1 <= Len(s) /\ s[i] = "$" /\ s[i + 1] = "{"
CloseAt(s, i) == i + 1 <= Len(s) /\ s[i] = "}" /\ s[i + 1] = "$"

Least(S) == CHOOSE i \in S : \A j \in S : i <= j

\* resolve(bag, path, {defaultValue})
resolve(bag, path, defaultValue) ==
    IF path \in DOMAIN bag THEN bag[path]
    ELSE IF path # <<>> /\ ~IsNaN(StringToNumber(path))
         THEN NumberToString(StringToNumber(path))
    ELSE defaultValue

RECURSIVE computeText(_, _, _)
computeText(s, bag, defaultValue) ==
    LET opens == {i \in 1..Len(s) : OpenAt(s, i)}
    IN  IF opens = {} THEN s
        ELSE LET i      == Least(opens)
                 closes == {j \in (i + 2)..Len(s) : CloseAt(s, j)}
             IN  IF closes = {} THEN s
                 ELSE LET j == Least(closes)
                      IN  SubSeq(s, 1, i - 1)
                          \o resolve(bag, SubSeq(s, i + 2, j - 1), defaultValue)
                          \o computeText(SubSeq(s, j + 2, Len(s)), bag, defaultValue)

\* ComputablePhrase.computeMessageStatic(phrase, props, options)
computeMessageStatic(phrase, bag, options) ==
    [result |-> computeText(phrase, bag, options.defaultValue)]

(***************************************************************************)
(* NumberField                                                             *)
(***************************************************************************)
BaseKeys == {"key", "tooltip", "label", "defaultValue", "size", "cssClass",
             "role", "permission"}

\* super(...) of the component base classes: the fields are kept as given.
InputComponent(data) ==
    [k \in BaseKeys \cup {"templateAddress"} |-> Get(data, k)]

\* super.toJSON() of the component base classes
InputComponent_toJSON(x) == [k \in BaseKeys |-> x[k]]

\* new NumberField(data)
NumberField(data) ==
    Merge(InputComponent([key             |-> Get(data, "key"),
                          tooltip         |-> Default(Get(data, "tooltip"), Null),
                          templateAddress |-> Get(data, "templateAddress"),
                          label           |-> Default(Get(data, "label"), Null),
                          defaultValue    |-> Default(Get(data, "defaultValue"), Null),
                          size            |-> Default(Get(data, "size"), Null),
                          cssClass        |-> Default(Get(data, "cssClass"), Null),
                          role            |-> Default(Get(data, "role"), Zero),
                          permission      |-> Default(Get(data, "permission"), Zero)]),
          [allowDecimal  |-> Default(Get(data, "allowDecimal"), False),
           minVal        |-> Default(Get(data, "minVal"), Null),
           maxVal        |-> Default(Get(data, "maxVal"), Null),
           allowRelative |-> Default(Get(data, "allowRelative"), True),
           showControls  |-> Default(Get(data, "showControls"), False)])

\* One call of the formula engine, as the field makes it.
EngineCall(x, phrase) ==
    [phrase |-> phrase, reference |-> x.key, defaultValue |-> <<"0">>]

EngineResult(x, bag, phrase) ==
    computeMessageStatic(phrase, bag,
        [reference |-> x.key, defaultValue |-> <<"0">>]).result

\* _getMinVal without its second isNaN test: a formula whose result is not
\* numeric leaves NaN as the bound.
_getMinVal_NoFallback(x, bag) ==
    IF Truthy(x.minVal) THEN
        LET n == StringToNumber(x.minVal)
        IN  IF IsNaN(n)
            THEN [val   |-> StringToNumber(EngineResult(x, bag, x.minVal)),
                  calls |-> <<EngineCall(x, x.minVal)>>]
            ELSE [val |-> n, calls |-> <<>>]
    ELSE [val |-> NegInf, calls |-> <<>>]

\* _getMinVal(actor): the bound, and the engine calls made to find it
_getMinVal(x, bag) ==
    IF Truthy(x.minVal) THEN
        LET n == StringToNumber(x.minVal)
        IN  IF IsNaN(n)
            THEN LET c == StringToNumber(EngineResult(x, bag, x.minVal))
                 IN  [val   |-> IF IsNaN(c) THEN NegInf ELSE c,
                      calls |-> <<EngineCall(x, x.minVal)>>]
            ELSE [val |-> n, calls |-> <<>>]
    ELSE [val |-> NegInf, calls |-> <<>>]

\* _getMaxVal without the formula engine: a bound that is no number literal is
\* taken as unbounded.
_getMaxVal_NoFormula(x, bag) ==
    IF Truthy(x.maxVal) THEN
        LET n == StringToNumber(x.maxVal)
        IN  [val |-> IF IsNaN(n) THEN PosInf ELSE n, calls |-> <<>>]
    ELSE [val |-> PosInf, calls |-> <<>>]

\* _getMaxVal(actor)
_getMaxVal(x, bag) ==
    IF Truthy(x.maxVal) THEN
        LET n == StringToNumber(x.maxVal)
        IN  IF IsNaN(n)
            THEN LET c == StringToNumber(EngineResult(x, bag, x.maxVal))
                 IN  [val   |-> IF IsNaN(c) THEN PosInf ELSE c,
                      calls |-> <<EngineCall(x, x.maxVal)>>]
            ELSE [val |-> n, calls |-> <<>>]
    ELSE [val |-> PosInf, calls |-> <<>>]

\* What one handler call did.  min and max are meaningful when minEval and
\* maxEval say that the bound was evaluated.
NoCall ==
    [op |-> "none", old |-> <<>>, text |-> <<>>,
     minEval |-> FALSE, min |-> NaN, maxEval |-> FALSE, max |-> NaN,
     minCalls |-> <<>>, maxCalls |-> <<>>, change |-> FALSE, warns |-> <<>>,
     input |-> <<>>, hidden |-> <<>>]

\* Number.isNaN(newValue) on the string read from the input: never true.
NotNumeric_NoCoercion(text) == FALSE

\* isNaN(Number(newValue))
NotNumeric(text) == IsNaN(StringToNumber(text))

\* !this._allowDecimal && !Number.isInteger(Number(newValue))
NotAllowedDecimal(x, text) ==
    ~Truthy(x.allowDecimal) /\ ~IsInteger(StringToNumber(text))

\* The sign test without this._allowRelative.
IsRelative_Always(x, s) == StartsWith(s, "+") \/ StartsWith(s, "-")

\* this._allowRelative && (newValue.startsWith('+') || newValue.startsWith('-'))
IsRelative(x, s) ==
    Truthy(x.allowRelative) /\ (StartsWith(s, "+") \/ StartsWith(s, "-"))

\* if (newValue < min) newValue = min
ClampMin(n, min) == IF Lt(n, min) THEN min ELSE n

\* The upper bound is reported but not applied.
ClampMax_NotApplied(n, max) == n

\* if (newValue > max) newValue = max
ClampMax(n, max) == IF Gt(n, max) THEN max ELSE n

\* persistValue, the blur handler of the displayed input: `text` is
\* inputElement.val() and `old` is hiddenInputElement.val(), both strings.
persistValue(x, bag, text, old) ==
    IF NotNumeric(text) THEN
        \* newValue = oldValue, a string equal to oldValue: no change event
        [NoCall EXCEPT !.op = "persist", !.old = old, !.text = text,
                       !.warns = <<"numeric">>,
                       !.input = old, !.hidden = old]
    ELSE
        LET notInt == NotAllowedDecimal(x, text)
            s1     == IF notInt THEN old ELSE text
            n2     == IF IsRelative(x, s1)
                      THEN Add(StringToNumber(old), StringToNumber(s1))
                      ELSE StringToNumber(s1)
            minR   == _getMinVal(x, bag)
            n3     == ClampMin(n2, minR.val)
            maxR   == _getMaxVal(x, bag)
            n4     == ClampMax(n3, maxR.val)
        IN  \* newValue is now a number and oldValue a string, so
            \* newValue !== oldValue holds and the hidden input is written.
            [op |-> "persist", old |-> old, text |-> text,
             minEval |-> TRUE, min |-> minR.val,
             maxEval |-> TRUE, max |-> maxR.val,
             minCalls |-> minR.calls, maxCalls |-> maxR.calls,
             change |-> TRUE,
             warns |-> (IF notInt THEN <<"integer">> ELSE <<>>)
                       \o (IF Lt(n2, minR.val) THEN <<"greater">> ELSE <<>>)
                       \o (IF Gt(n3, maxR.val) THEN <<"smaller">> ELSE <<>>),
             input |-> NumberToString(n4), hidden |-> NumberToString(n4)]

\* click on the minus button
minusClick(x, bag, text, old) ==
    LET minR == _getMinVal(x, bag)
    IN  [NoCall EXCEPT !.op = "minus", !.old = old, !.text = text,
            !.minEval = TRUE, !.min = minR.val, !.minCalls = minR.calls,
            !.input = NumberToString(
                MathMax(Add(StringToNumber(text), Int2Num(-1)), minR.val)),
            !.hidden = old]

\* click on the plus button
plusClick(x, bag, text, old) ==
    LET maxR == _getMaxVal(x, bag)
    IN  [NoCall EXCEPT !.op = "plus", !.old = old, !.text = text,
            !.maxEval = TRUE, !.max = maxR.val, !.maxCalls = maxR.calls,
            !.input = NumberToString(
                MathMin(Add(StringToNumber(text), Int2Num(1)), maxR.val)),
            !.hidden = old]

NumberFieldTag == <<"n", "u", "m", "b", "e", "r", "F", "i", "e", "l", "d">>

\* toJSON writing the type tag of the text field.
toJSON_TextFieldTag(x) ==
    Merge(InputComponent_toJSON(x),
          [allowDecimal  |-> x.allowDecimal,
           minVal        |-> x.minVal,
           maxVal        |-> x.maxVal,
           allowRelative |-> x.allowRelative,
           showControls  |-> x.showControls,
           type          |-> <<"t", "e", "x", "t", "F", "i", "e", "l", "d">>])

\* toJSON()
toJSON(x) ==
    Merge(InputComponent_toJSON(x),
          [allowDecimal  |-> x.allowDecimal,
           minVal        |-> x.minVal,
           maxVal        |-> x.maxVal,
           allowRelative |-> x.allowRelative,
           showControls  |-> x.showControls,
           type          |-> NumberFieldTag])

\* fromJSON that does not hand minVal to the constructor.
fromJSON_NoMinVal(j, templateAddress) ==
    NumberField([key             |-> Get(j, "key"),
                 tooltip         |-> Get(j, "tooltip"),
                 templateAddress |-> templateAddress,
                 allowDecimal    |-> Get(j, "allowDecimal"),
                 maxVal          |-> Get(j, "maxVal"),
                 allowRelative   |-> Get(j, "allowRelative"),
                 showControls    |-> Get(j, "showControls"),
                 label           |-> Get(j, "label"),
                 defaultValue    |-> Get(j, "defaultValue"),
                 size            |-> Get(j, "size"),
                 cssClass        |-> Get(j, "cssClass"),
                 role            |-> Get(j, "role"),
                 permission      |-> Get(j, "permission")])

\* NumberField.fromJSON(json, templateAddress)
fromJSON(j, templateAddress) ==
    NumberField([key             |-> Get(j, "key"),
                 tooltip         |-> Get(j, "tooltip"),
                 templateAddress |-> templateAddress,
                 allowDecimal    |-> Get(j, "allowDecimal"),
                 minVal          |-> Get(j, "minVal"),
                 maxVal          |-> Get(j, "maxVal"),
                 allowRelative   |-> Get(j, "allowRelative"),
                 showControls    |-> Get(j, "showControls"),
                 label           |-> Get(j, "label"),
                 defaultValue    |-> Get(j, "defaultValue"),
                 size            |-> Get(j, "size"),
                 cssClass        |-> Get(j, "cssClass"),
                 role            |-> Get(j, "role"),
                 permission      |-> Get(j, "permission")])

(***************************************************************************)
(* Bounds and input sets                                                   *)
(***************************************************************************)
\* Stored values stay within -MaxAbs .. MaxAbs.
MaxAbs == 3

KeyHp == <<"h", "p">>
KeyP  == <<"p">>
RefP  == <<"$", "{", "p", "}", "$">>      \* ${p}$, p is a property of the actor
RefQ  == <<"$", "{", "q", "}", "$">>      \* ${q}$, the actor has no property q

\* The texts a user types into the displayed input.
Texts ==
    { <<>>, <<"1">>, <<"3">>, <<"+", "1">>, <<"-", "1">>, <<"-", "2">>,
      <<"1", ".", "5">>, <<"+", ".", "5">>, <<"-", "1", ".", "5">>,
      <<"a">>, <<"+">> }

\* The (minVal, maxVal) pairs of the fields considered.
BoundPairs ==
    { <<Undefined, Undefined>>, <<<<>>, <<>>>>, <<<<"-", "1">>, <<"1">>>>,
      <<RefP, <<"1">>>>, <<RefQ, RefP>>, <<<<"a">>, <<"a">>>>,
      <<<<"-", "2">>, RefQ>>, <<Null, <<"2">>>> }

\* The property bags of the actors considered: p is 2, hp is absent or -1.
Bags ==
    { [k \in {KeyP} |-> <<"2">>],
      [k \in {KeyP, KeyHp} |-> IF k = KeyP THEN <<"2">> ELSE <<"-", "1">>] }

FieldData ==
    { [key |-> KeyHp, templateAddress |-> <<"b">>, defaultValue |-> dv,
       allowDecimal |-> ad, allowRelative |-> ar, showControls |-> sc,
       minVal |-> bp[1], maxVal |-> bp[2]] :
         dv \in {Undefined, <<"a">>}, ad \in {Undefined, True},
         ar \in {Undefined, False}, sc \in {Undefined, True}, bp \in BoundPairs }

InRange(s) ==
    LET n == StringToNumber(s)
    IN  n.k = "num" => Le(Int2Num(-MaxAbs), n) /\ Le(n, Int2Num(MaxAbs))

\* foundry.utils.getProperty(props, key) ?? defaultValue ?? ''
InitialValue(x, bag) ==
    IF x.key \in DOMAIN bag /\ bag[x.key] \notin {Null, Undefined} THEN bag[x.key]
    ELSE IF x.defaultValue \notin {Null, Undefined} THEN x.defaultValue
    ELSE <<>>

IdleJson   == [type |-> Undefined]
IdleCombat == [pc |-> "idle"]

(***************************************************************************)
(* The rendered number field: _getElement and its handlers                 *)
(***************************************************************************)
FieldInit ==
    /\ field \in {NumberField(d) : d \in FieldData}
    /\ props \in Bags
    /\ hiddenVal = InitialValue(field, props)
    /\ inputVal = hiddenVal
    /\ last = NoCall

\* The user edits the displayed input.
Type(t) ==
    /\ inputVal' = t
    /\ last' = NoCall
    /\ UNCHANGED <<field, props, hiddenVal, jsonVars, hookVars, combat>>

Handle(r) ==
    /\ InRange(r.hidden) /\ InRange(r.input)
    /\ inputVal' = r.input
    /\ hiddenVal' = r.hidden
    /\ last' = r
    /\ UNCHANGED <<field, props, jsonVars, hookVars, combat>>

\* blur of the displayed input, or mouseleave of the span while the input
\* has no focus
Blur == Handle(persistValue(field, props, inputVal, hiddenVal))

MinusClick ==
    /\ Truthy(field.showControls)
    /\ Handle(minusClick(field, props, inputVal, hiddenVal))

PlusClick ==
    /\ Truthy(field.showControls)
    /\ Handle(plusClick(field, props, inputVal, hiddenVal))

IdleField ==
    /\ field = IdleJson /\ props = <<>>
    /\ inputVal = <<>> /\ hiddenVal = <<>> /\ last = NoCall

IdleSheet == json = IdleJson /\ copy = IdleJson

IdleHook ==
    /\ hookPc = 0 /\ registry = <<>> /\ regLog = <<>> /\ settings = {}
    /\ installed = FALSE

Init == FieldInit /\ IdleSheet /\ IdleHook /\ combat = IdleCombat

Next ==
    \/ \E t \in Texts : Type(t)
    \/ Blur
    \/ MinusClick
    \/ PlusClick

Spec == Init /\ [][Next]_vars

(***************************************************************************)
(* The init hook and the component descriptors                             *)
(***************************************************************************)
\* The statements of the init hook, in order.
HookProgram ==
    << [op |-> "config", name |-> "documentClass"],
       [op |-> "setting", name |-> "initFormula"],
       [op |-> "setting", name |-> "customStyle"],
       [op |-> "setting", name |-> "expandRollVisibility"],
       [op |-> "setting", name |-> "rollIcon"],
       [op |-> "setting", name |-> "showHiddenRoll"],
       [op |-> "setting", name |-> "diagonalMovement"],
       [op |-> "setting", name |-> "diagonalMovementCustomVal"],
       [op |-> "config", name |-> "sheets"],
       [op |-> "setInitiativeFormula"],
       [op |-> "config", name |-> "TinyMCE"],
       [op |-> "component", tag |-> <<"l", "a", "b", "e", "l">>,
         class |-> "Label"],
       [op |-> "component", tag |-> <<"t", "e", "x", "t", "F", "i", "e", "l", "d">>,
         class |-> "TextField"],
       [op |-> "component", tag |-> <<"n", "u", "m", "b", "e", "r", "F", "i", "e", "l", "d">>,
         class |-> "NumberField"],
       [op |-> "component", tag |-> <<"t", "e", "x", "t", "A", "r", "e", "a">>,
         class |-> "RichTextArea"],
       [op |-> "component", tag |-> <<"c", "h", "e", "c", "k", "b", "o", "x">>,
         class |-> "Checkbox"],
       [op |-> "component", tag |-> <<"s", "e", "l", "e", "c", "t">>,
         class |-> "Dropdown"],
       [op |-> "component", tag |-> <<"p", "a", "n", "e", "l">>,
         class |-> "Panel"],
       [op |-> "component", tag |-> <<"t", "a", "b", "l", "e">>,
         class |-> "Table"],
       [op |-> "component", tag |-> <<"d", "y", "n", "a", "m", "i", "c", "T", "a", "b", "l", "e">>,
         class |-> "DynamicTable"],
       [op |-> "component", tag |-> <<"t", "a", "b", "b", "e", "d", "P", "a", "n", "e", "l">>,
         class |-> "TabbedPanel"],
       [op |-> "component", tag |-> <<"i", "t", "e", "m", "C", "o", "n", "t", "a", "i", "n", "e", "r">>,
         class |-> "ItemContainer"] >>

HookDone == hookPc = Len(HookProgram)

HookStmt == HookProgram[hookPc + 1]

\* componentFactory.addComponentType(tag, class)
addComponentType(reg, tag, class) ==
    [t \in DOMAIN reg \cup {tag} |-> IF t = tag THEN class ELSE reg[t]]

\* CONFIG assignments and sheet registrations: no state of the model
HookConfig ==
    /\ ~HookDone /\ HookStmt.op = "config"
    /\ hookPc' = hookPc + 1
    /\ UNCHANGED <<registry, regLog, settings, installed,
                   fieldVars, jsonVars, combat>>

\* game.settings.register('custom-system-builder', name, ...)
HookRegisterSetting ==
    /\ ~HookDone /\ HookStmt.op = "setting"
    /\ settings' = settings \cup {HookStmt.name}
    /\ hookPc' = hookPc + 1
    /\ UNCHANGED <<registry, regLog, installed, fieldVars, jsonVars, combat>>

\* setInitiativeFormula()
HookSetInitiativeFormula ==
    /\ ~HookDone /\ HookStmt.op = "setInitiativeFormula"
    /\ installed' = TRUE
    /\ hookPc' = hookPc + 1
    /\ UNCHANGED <<registry, regLog, settings, fieldVars, jsonVars, combat>>

\* componentFactory.addComponentType(...)
HookAddComponentType ==
    /\ ~HookDone /\ HookStmt.op = "component"
    /\ registry' = addComponentType(registry, HookStmt.tag, HookStmt.class)
    /\ regLog' = Append(regLog, <<HookStmt.tag, HookStmt.class>>)
    /\ hookPc' = hookPc + 1
    /\ UNCHANGED <<settings, installed, fieldVars, jsonVars, combat>>

\* The data of the number fields whose descriptors are considered.
SheetData ==
    { [key |-> KeyHp, templateAddress |-> <<"b">>,
       label |-> lb, role |-> rl,
       allowDecimal |-> ad, allowRelative |-> ar, showControls |-> sc,
       minVal |-> mn, maxVal |-> mx] :
         lb \in {Undefined, <<"l">>}, rl \in {Undefined, One},
         ad \in {Undefined, True, False}, ar \in {Undefined, True, False},
         sc \in {Undefined, True},
         mn \in {Undefined, Null, RefP}, mx \in {Undefined, <<"2">>} }

TemplateAddresses == {<<"b">>, <<"h">>}

\* json = field.toJSON()
ToJSON ==
    /\ json' = toJSON(field)
    /\ copy' = IdleJson
    /\ UNCHANGED <<fieldVars, hookVars, combat>>

\* copy = NumberField.fromJSON(json, templateAddress)
FromJSON(templateAddress) ==
    /\ json # IdleJson
    /\ copy' = fromJSON(json, templateAddress)
    /\ UNCHANGED <<fieldVars, json, hookVars, combat>>

SheetInit ==
    /\ field \in {NumberField(d) : d \in SheetData}
    /\ props = <<>> /\ inputVal = <<>> /\ hiddenVal = <<>> /\ last = NoCall
    /\ IdleSheet /\ IdleHook /\ combat = IdleCombat

SheetNext ==
    \/ HookConfig
    \/ HookRegisterSetting
    \/ HookSetInitiativeFormula
    \/ HookAddComponentType
    \/ ToJSON
    \/ \E ta \in TemplateAddresses : FromJSON(ta)

SpecSheet == SheetInit /\ [][SheetNext]_vars

(***************************************************************************)
(* Combat.prototype.rollInitiative, as installed by setInitiativeFormula   *)
(***************************************************************************)
\* The longest id list passed to rollInitiative.
MaxIds == 2

\* The combatants of the combat; "zz" is the id of no combatant.
Combatants == {"c1", "c2", "c3"}
Ids        == Combatants \cup {"zz"}
Hidden     == {"c2"}                  \* the combatants with hidden = true
Rolls      == {<<"3">>, <<"1", "7">>} \* the results phrase.compute may give

IdLists == UNION {[1..n -> Ids] : n \in 0..MaxIds}

\* What is passed as `ids`: one id, a string, or a list of ids.
IdArgs ==
    {[kind |-> "string", id |-> c] : c \in Ids}
    \cup {[kind |-> "array", ids |-> l] : l \in IdLists}

\* ids = typeof ids === 'string' ? [ids] : ids
StructureIds(arg) == IF arg.kind = "string" THEN <<arg.id>> ELSE arg.ids

\* combatant?.isOwner
IsOwner(owned, id) == id \in Combatants /\ id \in owned

\* rollMode: combatant.hidden && ['roll','publicroll'].includes(rollMode)
\*           ? 'gmroll' : rollMode
MessageRollMode(id, rollMode) ==
    IF id \in Hidden /\ rollMode \in {"roll", "publicroll"} THEN "gmroll"
    ELSE rollMode

\* The chat data of one combatant: the sound plays for the first one only.
ChatData(i, id, result, rollMode) ==
    [speaker |-> id, roll |-> result,
     rollMode |-> MessageRollMode(id, rollMode),
     sound |-> IF i > 1 THEN "null" ELSE "dice"]

\* combat.rollInitiative(ids, {updateTurn, messageOptions}) is called once the
\* init hook has run: `owned` are the combatants the user owns and currentId
\* is this.combatant?.id ("none" when the combat has no current combatant).
RollInitiative(arg, updateTurn, rollMode, owned, currentId) ==
    /\ installed /\ HookDone
    /\ combat.pc = "idle"
    /\ combat' = [pc |-> "loop", arg |-> arg, ids |-> StructureIds(arg),
                  i |-> 1, updateTurn |-> updateTurn, rollMode |-> rollMode,
                  owned |-> owned, currentId |-> currentId,
                  updates |-> <<>>, messages |-> <<>>, log |-> <<>>]
    /\ UNCHANGED <<fieldVars, jsonVars, hookVars>>

\* for (let [i, id] of ids.entries()): a combatant that is missing or not
\* owned makes the body evaluate `results`, which is declared nowhere.
LoopThrow ==
    /\ combat.pc = "loop" /\ combat.i <= Len(combat.ids)
    /\ ~IsOwner(combat.owned, combat.ids[combat.i])
    /\ combat' = [combat EXCEPT !.pc = "thrown"]
    /\ UNCHANGED <<fieldVars, jsonVars, hookVars>>

\* An iteration that persists the initiative at once, as
\* Combatant.rollInitiative does, instead of collecting it.
LoopBody_WritesAtOnce(result) ==
    /\ combat.pc = "loop" /\ combat.i <= Len(combat.ids)
    /\ IsOwner(combat.owned, combat.ids[combat.i])
    /\ combat' = [combat EXCEPT
           !.log      = Append(@, [call |-> "update",
                                   arg |-> <<[_id |-> combat.ids[combat.i],
                                              initiative |-> result]>>]),
           !.updates  = Append(@, [_id |-> combat.ids[combat.i],
                                   initiative |-> result]),
           !.messages = Append(@, ChatData(combat.i, combat.ids[combat.i],
                                           result, combat.rollMode)),
           !.i = @ + 1]
    /\ UNCHANGED <<fieldVars, jsonVars, hookVars>>

\* One iteration for an owned combatant: the phrase is computed, the update
\* and the chat data are collected.
LoopBody(result) ==
    /\ combat.pc = "loop" /\ combat.i <= Len(combat.ids)
    /\ IsOwner(combat.owned, combat.ids[combat.i])
    /\ combat' = [combat EXCEPT
           !.updates  = Append(@, [_id |-> combat.ids[combat.i],
                                   initiative |-> result]),
           !.messages = Append(@, ChatData(combat.i, combat.ids[combat.i],
                                           result, combat.rollMode)),
           !.i = @ + 1]
    /\ UNCHANGED <<fieldVars, jsonVars, hookVars>>

\* if (!updates.length) return this
ReturnEmpty ==
    /\ combat.pc = "loop" /\ combat.i > Len(combat.ids)
    /\ combat.updates = <<>>
    /\ combat' = [combat EXCEPT !.pc = "done"]
    /\ UNCHANGED <<fieldVars, jsonVars, hookVars>>

\* await this.updateEmbeddedDocuments('Combatant', updates)
UpdateCombatants ==
    /\ combat.pc = "loop" /\ combat.i > Len(combat.ids)
    /\ combat.updates # <<>>
    /\ combat' = [combat EXCEPT
           !.pc = "turn",
           !.log = Append(@, [call |-> "updateEmbeddedDocuments",
                              arg |-> combat.updates])]
    /\ UNCHANGED <<fieldVars, jsonVars, hookVars>>

\* if (updateTurn && currentId) await this.update({turn: ...})
UpdateTurn ==
    /\ combat.pc = "turn"
    /\ combat.updateTurn /\ combat.currentId # "none"
    /\ combat' = [combat EXCEPT
           !.pc = "create",
           !.log = Append(@, [call |-> "update",
                              arg |-> <<[turnOf |-> combat.currentId]>>])]
    /\ UNCHANGED <<fieldVars, jsonVars, hookVars>>

SkipTurn ==
    /\ combat.pc = "turn"
    /\ ~(combat.updateTurn /\ combat.currentId # "none")
    /\ combat' = [combat EXCEPT !.pc = "create"]
    /\ UNCHANGED <<fieldVars, jsonVars, hookVars>>

\* await ChatMessage.implementation.create(messages); return this
CreateMessages ==
    /\ combat.pc = "create"
    /\ combat' = [combat EXCEPT
           !.pc = "done",
           !.log = Append(@, [call |-> "ChatMessage.create",
                              arg |-> combat.messages])]
    /\ UNCHANGED <<fieldVars, jsonVars, hookVars>>

CombatInit ==
    /\ IdleField /\ IdleSheet /\ IdleHook /\ combat = IdleCombat

CombatNext ==
    \/ HookConfig
    \/ HookRegisterSetting
    \/ HookSetInitiativeFormula
    \/ HookAddComponentType
    \/ \E arg \in IdArgs, ut \in BOOLEAN, rm \in {"publicroll", "gmroll"},
          ow \in {Combatants, Combatants \ {"c3"}}, cur \in {"none", "c1"} :
            RollInitiative(arg, ut, rm, ow, cur)
    \/ LoopThrow
    \/ \E r \in Rolls : LoopBody(r)
    \/ ReturnEmpty
    \/ UpdateCombatants
    \/ UpdateTurn
    \/ SkipTurn
    \/ CreateMessages

SpecCombat == CombatInit /\ [][CombatNext]_vars

(***************************************************************************)
(* Properties of the number field's handlers (specification Spec)          *)
(***************************************************************************)
Persisted == last.op = "persist"

\* The entered text was accepted: it is numeric, and an integer when the
\* field does not allow decimals.
Accepted ==
    /\ Persisted
    /\ ~IsNaN(StringToNumber(last.text))
    /\ (Truthy(field.allowDecimal) \/ IsInteger(StringToNumber(last.text)))

\* The value the last call left in the hidden input, as a number.
Stored == StringToNumber(hiddenVal)

\* The entry is applied relative to the old value.
SignedEntry ==
    Truthy(field.allowRelative)
    /\ (StartsWith(last.text, "+") \/ StartsWith(last.text, "-"))

\* C1 as stated: whenever persistValue accepts the entered text, the value it
\* writes to the displayed and the hidden input lies between _getMinVal(actor)
\* and _getMaxVal(actor), whatever minVal, maxVal and the old value are.
C1_WrittenWithinBounds ==
    Accepted =>
        /\ inputVal = hiddenVal
        /\ Le(_getMinVal(field, props).val, Stored)
        /\ Le(Stored, _getMaxVal(field, props).val)

\* C1 amended: whenever persistValue accepts the entered text, the same value
\* is written to both inputs; unless that value is NaN (a signed entry added
\* to an old value that is not numeric) it is at most max, and it is at least
\* min provided min <= max.
C1_WrittenAtMostMax ==
    Accepted =>
        LET min == _getMinVal(field, props).val
            max == _getMaxVal(field, props).val
        IN  /\ inputVal = hiddenVal
            /\ hiddenVal = last.hidden
            /\ IsNaN(Stored) =>
                   SignedEntry /\ IsNaN(Add(StringToNumber(last.old),
                                            StringToNumber(last.text)))
            /\ ~IsNaN(Stored) =>
                   /\ Le(Stored, max)
                   /\ Le(min, max) => Le(min, Stored)

\* C1 witness: an accepted entry below the lower bound was raised to it.
C1_Witness ==
    /\ Accepted
    /\ last.warns = <<"greater">>
    /\ Stored = _getMinVal(field, props).val
    /\ last.text = <<"-", "2">>

\* How a bound is resolved (C2), for the configured bound b, the
\* value found, the engine calls made and the value of "unbounded".
BoundResolved(b, val, calls, unbounded) ==
    /\ ~IsNaN(val)
    /\ b \in {Null, Undefined, <<>>} => val = unbounded /\ calls = <<>>
    /\ (b \notin {Null, Undefined, <<>>} /\ ~IsNaN(StringToNumber(b))) =>
           val = StringToNumber(b) /\ calls = <<>>
    /\ (b \notin {Null, Undefined, <<>>} /\ IsNaN(StringToNumber(b))) =>
           LET r == computeMessageStatic(b, props,
                        [reference |-> field.key, defaultValue |-> <<"0">>]).result
           IN  /\ calls = << [phrase |-> b, reference |-> field.key,
                              defaultValue |-> <<"0">>] >>
               /\ val = IF IsNaN(StringToNumber(r)) THEN unbounded
                        ELSE StringToNumber(r)

\* C2: an absent or empty bound is -Infinity (min) or +Infinity (max); a bound
\* that converts to a number is that number, found without the formula engine;
\* any other bound is computed by the engine with reference = key and
\* defaultValue '0', and is the number of the result, or unbounded when the
\* result is not numeric.  The bound is never NaN.
C2_BoundResolution ==
    /\ last.minEval =>
           BoundResolved(field.minVal, last.min, last.minCalls, NegInf)
    /\ last.maxEval =>
           BoundResolved(field.maxVal, last.max, last.maxCalls, PosInf)

\* C2 witness: both bounds were evaluated, the lower one by the engine with a
\* numeric result and the upper one from a literal.
C2_Witness ==
    /\ last.minEval /\ last.maxEval
    /\ field.minVal = RefP /\ last.min = Int2Num(2) /\ Len(last.minCalls) = 1
    /\ field.maxVal = <<"1">> /\ last.max = Int2Num(1) /\ last.maxCalls = <<>>

\* b is a formula that is one reference to a property the bag does not have.
MissingRef(b, bag) ==
    /\ Len(b) > 4
    /\ OpenAt(b, 1) /\ CloseAt(b, Len(b) - 1)
    /\ SubSeq(b, 3, Len(b) - 2) \notin DOMAIN bag
    /\ IsNaN(StringToNumber(SubSeq(b, 3, Len(b) - 2)))

\* C3: a bound that is a formula referencing a property absent from the
\* actor's property bag is 0: the default '0' is substituted, the bound is
\* neither unbounded nor an error.
C3_MissingPropertyBoundIsZero ==
    /\ (last.minEval /\ MissingRef(field.minVal, props)) => last.min = Int2Num(0)
    /\ (last.maxEval /\ MissingRef(field.maxVal, props)) => last.max = Int2Num(0)

\* C3 witness: with minVal = ${q}$ and no property q, an entry of -1 was
\* raised to 0.
C3_Witness ==
    /\ Accepted
    /\ MissingRef(field.minVal, props)
    /\ last.text = <<"-", "1">> /\ ~Truthy(field.allowRelative)
    /\ last.warns = <<"greater">>
    /\ hiddenVal = <<"0">>

\* C7 as stated: when decimals are not allowed and the entered text is a
\* numeric non-integer, the hidden input holds after the call the value it
\* held before.
C7_NonIntegerKeepsStored ==
    ( /\ Persisted
      /\ ~Truthy(field.allowDecimal)
      /\ ~IsNaN(StringToNumber(last.text))
      /\ ~IsInteger(StringToNumber(last.text)) )
    => Stored = StringToNumber(last.old)

\* C8: a text that is not numeric is rejected: the displayed input is reset to
\* the old stored value, the hidden input keeps its value, no change event is
\* triggered and neither bound is evaluated.
C8_NonNumericRejected ==
    (Persisted /\ IsNaN(StringToNumber(last.text))) =>
        /\ inputVal = last.old
        /\ hiddenVal = last.old
        /\ ~last.change
        /\ ~last.minEval /\ ~last.maxEval
        /\ last.minCalls = <<>> /\ last.maxCalls = <<>>

\* C8 witness: the text "a" was entered over a stored -1 and rejected.
C8_Witness ==
    /\ Persisted
    /\ last.text = <<"a">> /\ last.old = <<"-", "1">>
    /\ last.warns = <<"numeric">>
    /\ inputVal = <<"-", "1">>

\* "clamped to the bounds"
ClampedTo(v, lo, hi) == IF IsNaN(v) THEN v ELSE MathMin(MathMax(v, lo), hi)

\* C9: an accepted text with a leading sign, when allowRelative is true,
\* stores old value + entered number, clamped to the bounds; otherwise the
\* entered number itself, clamped to the bounds, is stored.
C9_RelativeEntry ==
    Accepted =>
        LET entered == StringToNumber(last.text)
            target  == IF SignedEntry
                       THEN Add(StringToNumber(last.old), entered)
                       ELSE entered
        IN  /\ last.change
            /\ hiddenVal = NumberToString(ClampedTo(target, last.min, last.max))

\* C9 witness: +1 entered over a stored -1 with allowRelative stored 0.
C9_Witness ==
    /\ Accepted /\ SignedEntry
    /\ last.text = <<"+", "1">> /\ last.old = <<"-", "1">>
    /\ hiddenVal = <<"0">>

\* C10 as stated: when the displayed input holds exactly the stored value, an
\* integer within [min, max], and allowRelative is true, persistValue leaves
\* the stored number as it was.
C10_UneditedIdempotent ==
    ( /\ Persisted
      /\ last.text = last.old
      /\ IsInteger(StringToNumber(last.old))
      /\ Le(last.min, StringToNumber(last.old))
      /\ Le(StringToNumber(last.old), last.max)
      /\ field.allowRelative = True )
    => Stored = StringToNumber(last.old)

(***************************************************************************)
(* Properties of the descriptors and the registry (specification SpecSheet)*)
(***************************************************************************)
RoundTripKeys ==
    {"key", "tooltip", "label", "defaultValue", "size", "cssClass", "role",
     "permission", "allowDecimal", "minVal", "maxVal", "allowRelative",
     "showControls"}

\* C4: for a number field x, NumberField.fromJSON(x.toJSON(), templateAddress)
\* with x's templateAddress has the same key, tooltip, label, defaultValue,
\* size, cssClass, role, permission, allowDecimal, minVal, maxVal,
\* allowRelative and showControls as x, and its toJSON() equals x.toJSON().
C4_RoundTrip ==
    (copy # IdleJson /\ copy.templateAddress = field.templateAddress) =>
        /\ \A k \in RoundTripKeys : copy[k] = field[k]
        /\ copy = field
        /\ toJSON(copy) = json

\* C4 witness: a field with a formula as minVal and allowRelative false has
\* been serialised and read back.
C4_Witness ==
    /\ copy # IdleJson /\ copy.templateAddress = field.templateAddress
    /\ field.minVal = RefP /\ field.allowRelative = False
    /\ field.allowDecimal = True /\ field.label = <<"l">>
    /\ json.minVal = RefP /\ copy.minVal = RefP

ExpectedTags ==
    { <<"l", "a", "b", "e", "l">>,
      <<"t", "e", "x", "t", "F", "i", "e", "l", "d">>,
      <<"n", "u", "m", "b", "e", "r", "F", "i", "e", "l", "d">>,
      <<"t", "e", "x", "t", "A", "r", "e", "a">>,
      <<"c", "h", "e", "c", "k", "b", "o", "x">>,
      <<"s", "e", "l", "e", "c", "t">>,
      <<"p", "a", "n", "e", "l">>,
      <<"t", "a", "b", "l", "e">>,
      <<"d", "y", "n", "a", "m", "i", "c", "T", "a", "b", "l", "e">>,
      <<"t", "a", "b", "b", "e", "d", "P", "a", "n", "e", "l">>,
      <<"i", "t", "e", "m", "C", "o", "n", "t", "a", "i", "n", "e", "r">> }

\* C5: once the init hook has run, the registry holds exactly the eleven tags
\* label, textField, numberField, textArea, checkbox, select, panel, table,
\* dynamicTable, tabbedPanel and itemContainer, each registered once and with
\* a class of its own; numberField is mapped to NumberField, and the type of
\* every descriptor written by NumberField.toJSON is that registered tag.
C5_RegistryAfterInit ==
    HookDone =>
        /\ DOMAIN registry = ExpectedTags
        /\ Cardinality(DOMAIN registry) = 11
        /\ Len(regLog) = 11
        /\ \A a, b \in DOMAIN regLog :
               a # b => regLog[a][1] # regLog[b][1] /\ regLog[a][2] # regLog[b][2]
        /\ \A a \in DOMAIN regLog : registry[regLog[a][1]] = regLog[a][2]
        /\ registry[NumberFieldTag] = "NumberField"
        /\ json # IdleJson =>
               json.type \in DOMAIN registry /\ registry[json.type] = "NumberField"

\* C5 witness: the hook has run and a descriptor has been written.
C5_Witness ==
    /\ HookDone
    /\ json # IdleJson /\ json.type = NumberFieldTag
    /\ NumberFieldTag \in DOMAIN registry

(***************************************************************************)
(* Properties of Combat.rollInitiative (specification SpecCombat)          *)
(***************************************************************************)
Called == combat.pc # "idle"
Ended  == combat.pc \in {"done", "thrown"}

\* Every listed id names a combatant the user owns.
AllOwned ==
    \A k \in DOMAIN combat.ids : IsOwner(combat.owned, combat.ids[k])

\* The batch update holds one {_id, initiative} entry per listed id, in list
\* order, with the initiative computed for it.
OneEntryPerId(entry) ==
    /\ entry.call = "updateEmbeddedDocuments"
    /\ Len(entry.arg) = Len(combat.ids)
    /\ \A k \in DOMAIN combat.ids :
           /\ DOMAIN entry.arg[k] = {"_id", "initiative"}
           /\ entry.arg[k]._id = combat.ids[k]
           /\ entry.arg[k].initiative = combat.messages[k].roll
           /\ entry.arg[k].initiative \in Rolls

TurnWanted == combat.updateTurn /\ combat.currentId # "none"

\* Nothing is written while the initiatives are computed.
NoWriteWhileComputing == (Called /\ combat.pc = "loop") => combat.log = <<>>

\* C6 as stated: nothing is written while the initiatives are computed; the
\* call then persists, in one batch update, exactly one entry per listed id in
\* list order, updates the turn if requested, and creates the chat messages
\* last; with an empty id list no update and no message is made.
C6_BatchPerListedId ==
    /\ NoWriteWhileComputing
    /\ (Called /\ Ended) =>
           IF combat.ids = <<>> THEN combat.log = <<>>
           ELSE /\ Len(combat.log) = IF TurnWanted THEN 3 ELSE 2
                /\ OneEntryPerId(combat.log[1])
                /\ TurnWanted => combat.log[2].call = "update"
                /\ combat.log[Len(combat.log)].call = "ChatMessage.create"

\* C6 amended: nothing is written while the initiatives are computed.  When
\* every listed id names a combatant the user owns, the call ends with exactly
\* these writes, in this order: one batch update with one entry per listed id
\* in list order, the turn update if updateTurn is set and the combat has a
\* current combatant, the creation of one chat message per listed id.  When
\* some listed id names no combatant or one the user does not own, the call
\* stops at the first such id by an error, with no update and no message
\* made.  With an empty id list no update and no message is made.
C6_BatchWhenAllOwned ==
    /\ NoWriteWhileComputing
    /\ (Called /\ combat.pc = "thrown") =>
           /\ combat.log = <<>>
           /\ ~IsOwner(combat.owned, combat.ids[combat.i])
           /\ \A k \in 1..(combat.i - 1) : IsOwner(combat.owned, combat.ids[k])
    /\ (Called /\ combat.pc = "done") =>
           /\ AllOwned
           /\ IF combat.ids = <<>> THEN combat.log = <<>>
              ELSE /\ Len(combat.log) = IF TurnWanted THEN 3 ELSE 2
                   /\ OneEntryPerId(combat.log[1])
                   /\ TurnWanted => combat.log[2].call = "update"
                   /\ combat.log[Len(combat.log)].call = "ChatMessage.create"
                   /\ Len(combat.log[Len(combat.log)].arg) = Len(combat.ids)
    /\ (Called /\ combat.pc \in {"turn", "create"}) =>
           /\ combat.log # <<>>
           /\ \A k \in DOMAIN combat.log : combat.log[k].call # "ChatMessage.create"

\* C6 witness: a call for the owned combatants c2, c1 has ended with the batch
\* update, the turn update and the messages, in this order.
C6_Witness ==
    /\ Called /\ combat.pc = "done"
    /\ combat.ids = <<"c2", "c1">> /\ TurnWanted
    /\ Len(combat.log) = 3
    /\ combat.log[1].arg[1]._id = "c2" /\ combat.log[1].arg[2]._id = "c1"
    /\ combat.log[1].arg[1].initiative # combat.log[1].arg[2].initiative
    /\ combat.log[3].call = "ChatMessage.create"

=============================================================================
